---- MODULE Spec2Model ----
(***************************************************************************)
(* git-trunk: a command dispatcher that keeps, for every trunk store, a    *)
(* mirror directory .trunk/<store>, a ref refs/trunk/<store> in the main   *)
(* repository and the same ref on a remote.  Every command is one action:  *)
(* the whole handler, from its first step to the exit of the process.      *)
(* Text (the ignore file, the answers typed at a prompt) is a sequence of  *)
(* one-character strings; a commit hash is a positive number, 0 stands for *)
(* "no commit" (an absent ref, a branch without commits).                  *)
(***************************************************************************)
EXTENDS Integers, Sequences, FiniteSets, TLC

\* ------------------------------------------------------------------ bounds
MaxCommits == 2
\* the longest .gitignore a run starts from, in pieces (a character or ".trunk")
MaxPieces == 3

\* ------------------------------------------------------------------ names
Clones == {"local", "second"}
Stores == {"main", "blog"}
Remotes == {"origin", "upstream"}
DefaultStore == "main"
DefaultRemote == "origin"
\* no .gitignore: a value no text equals
NoFile == <<"absent">>
NoCommit == 0

\* ------------------------------------------------------------------ text
NL == "\n"
CR == "\r"
Whitespace == {" ", "\t", NL, CR}
DotTrunk == <<".", "t", "r", "u", "n", "k">>

RECURSIVE LinesAcc(_, _, _, _)
LinesAcc(s, i, cur, acc) ==
  IF i > Len(s)
    THEN IF cur = <<>> THEN acc ELSE Append(acc, cur)
    ELSE IF s[i] = NL
      THEN LET line == IF cur # <<>> /\ cur[Len(cur)] = CR
                         THEN SubSeq(cur, 1, Len(cur) - 1) ELSE cur
           IN LinesAcc(s, i + 1, <<>>, Append(acc, line))
      ELSE LinesAcc(s, i + 1, Append(cur, s[i]), acc)

\* str::lines(): split at "\n" (a "\r" before it is dropped); no final empty line
Lines(s) == LinesAcc(s, 1, <<>>, <<>>)

RECURSIVE TrimStart(_)
TrimStart(s) ==
  IF s # <<>> /\ s[1] \in Whitespace THEN TrimStart(Tail(s)) ELSE s

RECURSIVE TrimEnd(_)
TrimEnd(s) ==
  IF s # <<>> /\ s[Len(s)] \in Whitespace
    THEN TrimEnd(SubSeq(s, 1, Len(s) - 1)) ELSE s

\* str::trim()
Trim(s) == TrimEnd(TrimStart(s))

LowerChar(ch) ==
  CASE ch = "Y" -> "y"
    [] ch = "E" -> "e"
    [] ch = "S" -> "s"
    [] ch = "N" -> "n"
    [] ch = "O" -> "o"
    [] OTHER -> ch

\* str::to_lowercase()
ToLower(s) == [i \in 1..Len(s) |-> LowerChar(s[i])]

RECURSIVE Join(_, _)
\* [&str]::join(sep)
Join(lines, sep) ==
  IF lines = <<>> THEN <<>>
  ELSE IF Len(lines) = 1 THEN lines[1]
  ELSE lines[1] \o sep \o Join(Tail(lines), sep)

RECURSIVE FilterLines(_)
\* .filter(|line| line.trim() != ".trunk")
FilterLines(lines) ==
  IF lines = <<>> THEN <<>>
  ELSE IF Trim(lines[1]) # DotTrunk
    THEN <<lines[1]>> \o FilterLines(Tail(lines))
    ELSE FilterLines(Tail(lines))

\* .lines().any(|line| line.trim() == ".trunk")
HasTrunkLine(content) ==
  \E i \in 1..Len(Lines(content)) : Trim(Lines(content)[i]) = DotTrunk

EndsWith(s, suffix) ==
  /\ Len(s) >= Len(suffix)
  /\ SubSeq(s, Len(s) - Len(suffix) + 1, Len(s)) = suffix

\* a prompt that takes every line starting with y as yes
IsYesLoose(input) == Trim(input) # <<>> /\ ToLower(Trim(input))[1] = "y"

\* the line typed at a [y/N] prompt is taken as yes
IsYes(input) == ToLower(Trim(input)) \in {<<"y">>, <<"y", "e", "s">>}

\* what read_line may return at a prompt (the empty one is end of input)
Inputs ==
  { <<"y", NL>>, <<" ", "Y", "E", "S", " ", NL>>, <<"y", "e", NL>>, <<>> }

\* ------------------------------------------------------------------ state
VARIABLES
  gitignore,   \* [Clones -> text or NoFile]: <repo-root>/.gitignore
  trunkRoot,   \* [Clones -> BOOLEAN]: the directory <repo-root>/.trunk exists
  mirror,      \* [Clones -> [Stores -> NoDir or its repository]]: .trunk/<store>
  localRef,    \* [Clones -> [Stores -> commit]]: refs/trunk/<store>
  tempBranch,  \* [Clones -> [Stores -> commit]]: branch trunk-temp-<store>
  remoteRef,   \* [Remotes -> [Stores -> commit]]: refs/trunk/<store> on the remote
  parent,      \* [commit -> its parent commit]
  nextCommit,  \* the next commit to be created
  last,        \* the command that ran last, with its inputs and exit code
  phase,       \* position in the round-trip scenario ("free" outside it), or
               \* [Runs -> where the run stands] when two runs interleave
  synced,      \* history: [Clones -> [Stores -> BOOLEAN]], a checkout or commit
               \* completed since the mirror directory was created
  heads,       \* history: [Stores -> set of commits], the commits that have been
               \* the head of main in some mirror of the store
  hooks,       \* [Clones -> [HookNames -> script or NoHook]]: .git/hooks/<name>
  objects      \* [Clones -> set of commits]: the commits whose objects are in
               \* the object database of the main repository

vars == <<gitignore, trunkRoot, mirror, localRef, tempBranch, remoteRef,
          parent, nextCommit, last, phase, synced, heads, hooks, objects>>

Commits == 1..MaxCommits

\* a mirror is an independent repository: the commit of its branch main, whether
\* its working tree has uncommitted changes, and refs/temp/trunk_store_data
Repo(head, dirty, tmp) ==
  [exists |-> TRUE, head |-> head, dirty |-> dirty, tmp |-> tmp]

\* the directory .trunk/<store> does not exist
NoDir == [exists |-> FALSE, head |-> NoCommit, dirty |-> FALSE, tmp |-> NoCommit]

RECURSIVE IsAncestor(_, _)
\* a is b or an ancestor of b: updating a ref from a to b is a fast-forward
IsAncestor(a, b) ==
  IF b = NoCommit THEN FALSE
  ELSE IF a = b THEN TRUE
  ELSE IsAncestor(a, parent[b])

\* a ref update that rejects a ref that is already up to date
FastForwardOnlyNew(old, new) == old = NoCommit \/ (old # new /\ IsAncestor(old, new))

\* git accepts moving a ref from old to new without "+"
FastForward(old, new) == old = NoCommit \/ IsAncestor(old, new)

\* standard input was not read
NoInput == <<"unread">>

\* the lines a run has read from standard input, given the line of its prompt
Stdin(input) == IF input = NoInput THEN <<>> ELSE <<input>>

NoLast ==
  [op |-> "none", clone |-> "local", store |-> DefaultStore,
   remote |-> DefaultRemote, forced |-> FALSE, input |-> NoInput,
   stdin |-> <<>>, failed |-> "none", removed |-> {}, all |-> FALSE, named |-> TRUE,
   report |-> {}, exit |-> 0]

\* forced: --force stood in for a prompt; input: the line read at the prompt of
\* the run; stdin: every line the run read; all, report: the --all of info and
\* what it printed
Ran(op, c, s, r, forced, input, failed, code) ==
  last' = [op |-> op, clone |-> c, store |-> s, remote |-> r, forced |-> forced,
           input |-> input, stdin |-> Stdin(input), failed |-> failed,
           removed |-> {}, all |-> FALSE, named |-> TRUE, report |-> {}, exit |-> code]

\* the lines a run may read: standard input is read only if a prompt is shown
Typed(prompted) == IF prompted THEN Inputs ELSE { <<>> }

\* a repository in which the tool has not run yet: no .gitignore, no .trunk, no
\* trunk ref, here or on a remote
Blank ==
  /\ trunkRoot = [c \in Clones |-> FALSE]
  /\ mirror = [c \in Clones |-> [s \in Stores |-> NoDir]]
  /\ localRef = [c \in Clones |-> [s \in Stores |-> NoCommit]]
  /\ tempBranch = [c \in Clones |-> [s \in Stores |-> NoCommit]]
  /\ remoteRef = [r \in Remotes |-> [s \in Stores |-> NoCommit]]
  /\ parent = [k \in Commits |-> NoCommit]
  /\ nextCommit = 1
  /\ last = NoLast
  /\ synced = [c \in Clones |-> [s \in Stores |-> FALSE]]
  /\ heads = [s \in Stores |-> {}]
  /\ objects = [c \in Clones |-> {}]

\* the history variables are kept only by the specifications that follow them
NoHistory == UNCHANGED <<synced, heads>>

\* the same for the object database
NoObjects == UNCHANGED objects

HookNames == {"post-commit", "pre-push"}

\* the file .git/hooks/<name> does not exist
NoHook == <<"absent">>

\* no hook is installed in any clone
NoHooks == hooks = [c \in Clones |-> [h \in HookNames |-> NoHook]]

Fresh == gitignore = [c \in Clones |-> NoFile] /\ NoHooks /\ Blank

Init == Fresh /\ phase = "free"

\* ------------------------------------------------------------------ init
\* init.rs step 3: append ".trunk\n" unless some line trims to ".trunk"
InitIgnore(content) ==
  IF content = NoFile THEN DotTrunk \o <<NL>>
  ELSE IF ~HasTrunkLine(content) THEN content \o DotTrunk \o <<NL>>
  ELSE content

InitFails == {"none", "tool", "rmdir", "mkdir", "git"}

\* an init that records the mirror's commit in refs/trunk/<store>
InitRefsCreated(c, s) == [localRef EXCEPT ![c][s] = mirror[c][s].head]

\* init.rs runs git for rev-parse in the main repository and for init, add and
\* commit inside the mirror: the refs of the main repository stay as they are
InitRefs(c, s) == localRef

\* an init that re-creates an existing mirror without --force
InitKeepsNever(exists, force) == FALSE

\* init.rs step 5: an existing mirror directory without --force is kept (return)
InitKeeps(exists, force) == exists /\ ~force

InitCmd(c, s, r, force, fail) ==
  LET forced == force /\ mirror[c][s].exists IN
  /\ fail \in InitFails
  /\ UNCHANGED hooks
  /\ localRef' = InitRefs(c, s)
  /\ UNCHANGED <<tempBranch, remoteRef >>
  /\ IF fail = "tool"
       THEN /\ Ran("init", c, s, r, FALSE, NoInput, "tool", 1)
            /\ UNCHANGED <<gitignore, trunkRoot, mirror, parent, nextCommit>>
       ELSE
         /\ gitignore' = [gitignore EXCEPT ![c] = InitIgnore(@)]
         /\ trunkRoot' = [trunkRoot EXCEPT ![c] = TRUE]
         /\ IF InitKeeps(mirror[c][s].exists, force)
              THEN /\ Ran("init", c, s, r, forced, NoInput, "none", 0)
                   /\ UNCHANGED <<mirror, parent, nextCommit>>
            ELSE IF mirror[c][s].exists /\ fail = "rmdir"
              THEN /\ Ran("init", c, s, r, forced, NoInput, "rmdir", 1)
                   /\ UNCHANGED <<mirror, parent, nextCommit>>
            ELSE IF fail = "mkdir"
              THEN /\ Ran("init", c, s, r, forced, NoInput, "mkdir", 1)
                   /\ mirror' = [mirror EXCEPT ![c][s] = NoDir]
                   /\ UNCHANGED <<parent, nextCommit>>
            ELSE IF fail = "git"
              THEN /\ Ran("init", c, s, r, forced, NoInput, "git", 1)
                   /\ mirror' = [mirror EXCEPT ![c][s] = Repo(NoCommit, TRUE, NoCommit)]
                   /\ UNCHANGED <<parent, nextCommit>>
            ELSE /\ nextCommit <= MaxCommits
                 /\ Ran("init", c, s, r, forced, NoInput, "none", 0)
                 /\ mirror' = [mirror EXCEPT ![c][s] = Repo(nextCommit, FALSE, NoCommit)]
                 /\ parent' = [parent EXCEPT ![nextCommit] = NoCommit]
                 /\ nextCommit' = nextCommit + 1

\* ------------------------------------------------------------------ commit
\* a commit that writes refs/trunk/main whatever the store
CommitRefMain(s) == "main"

\* format!("refs/trunk/{}", store_name): the store whose ref the run updates
CommitRefStore(s) == s

\* an update that creates the ref and never moves it
UpdatedRefKeep(old, hash) == IF old # NoCommit THEN old ELSE hash

\* git update-ref <ref> <commit_hash>: the ref is created or moved
UpdatedRef(old, hash) == hash

\* a commit that takes a missing mirror for nothing to do
CommitExitLenient(failed) ==
  IF failed \in {"none", "commit", "cleanup", "no-mirror"} THEN 0 ELSE 1

\* a commit for which a temporary branch that cannot be deleted is fatal
CommitExitStrict(failed) == IF failed \in {"none", "commit"} THEN 0 ELSE 1

\* commit.rs: exit(1) at a missing mirror (step 2) as at every failed step but
\* git commit and the deletion of the temporary branch
CommitExit(failed) == IF failed \in {"none", "commit", "cleanup"} THEN 0 ELSE 1

\* a commit that stages whatever is answered at the prompt
ShouldStageAlways(force, input) == TRUE

\* commit.rs step 4, should_stage: --force, or the prompt answered y or yes
ShouldStage(force, input) == force \/ IsYes(input)

\* a commit that writes the ref although the fetch failed
UnfetchedRefMoved(old, hash) == hash

\* commit.rs steps 6 and 7: exit(1) before update-ref when the mirror has no
\* commit or git fetch fails
UnfetchedRef(old, hash) == old

\* a fetch that refuses a temporary branch that is already there
TempFetchedFresh(temp, head) == temp = NoCommit

\* commit.rs step 7, git fetch <mirror> main:trunk-temp-<store> (no "+"): the
\* branch is created, or moved forward when it was left by an earlier run
TempFetched(temp, head) == FastForward(temp, head)

CommitFails == {"none", "tool", "add", "commit", "fetch", "update-ref", "cleanup"}

CommitCmd(c, s, r, force, input, fail) ==
  LET m == mirror[c][s]
      prompted == m.exists /\ m.dirty /\ ~force
      forced == m.exists /\ m.dirty /\ force
      answer == IF prompted THEN input ELSE NoInput
      \* steps 4 and 5: git add -A, git commit -m
      stage == m.dirty /\ ShouldStage(force, input)
      created == stage /\ fail # "commit"
      head == IF created THEN nextCommit ELSE m.head
      m1 == IF created THEN Repo(nextCommit, FALSE, m.tmp) ELSE m
      \* step 7: git fetch <mirror> main:trunk-temp-<store>
      fetched == /\ head # NoCommit
                 /\ fail # "fetch"
                 /\ TempFetched(tempBranch[c][s], head)
  IN
  /\ fail \in CommitFails
  /\ UNCHANGED hooks
  /\ input \in Typed(prompted)
  /\ UNCHANGED <<gitignore, trunkRoot, remoteRef >>
  /\ IF fail = "tool"
       THEN /\ Ran("commit", c, s, r, FALSE, NoInput, "tool", 1)
            /\ UNCHANGED <<mirror, localRef, tempBranch, parent, nextCommit>>
     ELSE IF ~m.exists
       THEN /\ Ran("commit", c, s, r, FALSE, NoInput, "no-mirror",
                   CommitExit("no-mirror"))
            /\ UNCHANGED <<mirror, localRef, tempBranch, parent, nextCommit>>
     ELSE IF m.dirty /\ ~ShouldStage(force, input)
       THEN /\ Ran("commit", c, s, r, forced, answer, "none", 0)
            /\ UNCHANGED <<mirror, localRef, tempBranch, parent, nextCommit>>
     ELSE IF stage /\ fail = "add"
       THEN /\ Ran("commit", c, s, r, forced, answer, "add", 1)
            /\ UNCHANGED <<mirror, localRef, tempBranch, parent, nextCommit>>
     ELSE
       /\ created => nextCommit <= MaxCommits
       /\ mirror' = [mirror EXCEPT ![c][s] = m1]
       /\ IF created
            THEN /\ parent' = [parent EXCEPT ![nextCommit] = m.head]
                 /\ nextCommit' = nextCommit + 1
            ELSE UNCHANGED <<parent, nextCommit>>
       /\ IF ~fetched
            THEN /\ Ran("commit", c, s, r, forced, answer,
                        IF head = NoCommit THEN "no-commits" ELSE "fetch", 1)
                 /\ localRef' = [localRef EXCEPT ![c][CommitRefStore(s)] =
                                   UnfetchedRef(@, head)]
                 /\ UNCHANGED tempBranch
          ELSE IF fail = "update-ref"
            THEN /\ Ran("commit", c, s, r, forced, answer, "update-ref", 1)
                 /\ tempBranch' = [tempBranch EXCEPT ![c][s] = head]
                 /\ UNCHANGED localRef
          ELSE /\ localRef' = [localRef EXCEPT ![c][CommitRefStore(s)] =
                                 UpdatedRef(@, head)]
               /\ tempBranch' = [tempBranch EXCEPT ![c][s] =
                                   IF fail = "cleanup" THEN head ELSE NoCommit]
               /\ LET warned == IF fail = "cleanup" THEN "cleanup"
                                 ELSE IF stage /\ ~created THEN "commit"
                                 ELSE "none"
                  IN Ran("commit", c, s, r, forced, answer, warned,
                         CommitExit(warned))

\* ------------------------------------------------------------------ the user
\* the user changes a file in the mirror's working tree
Edit(c, s) ==
  /\ mirror[c][s].exists
  /\ ~mirror[c][s].dirty
  /\ mirror' = [mirror EXCEPT ![c][s].dirty = TRUE]
  /\ Ran("edit", c, s, DefaultRemote, FALSE, NoInput, "none", 0)
  /\ UNCHANGED <<gitignore, trunkRoot, localRef, tempBranch, remoteRef,
                 parent, nextCommit, hooks>>

\* ------------------------------------------------------------------ checkout
\* checkout.rs step 6: as in init, but a text without a final newline gets one
CheckoutIgnore(content) ==
  IF content = NoFile THEN DotTrunk \o <<NL>>
  ELSE IF ~HasTrunkLine(content)
    THEN IF content # <<>> /\ content[Len(content)] # NL
           THEN content \o <<NL>> \o DotTrunk \o <<NL>>
           ELSE content \o DotTrunk \o <<NL>>
  ELSE content

\* a checkout that leaves the new repository without the fetched commit
CheckedOutNothing(ref) == NoCommit

\* checkout.rs steps 12 to 14b: reset --hard, update-ref refs/heads/main and
\* checkout main put branch main of the mirror on the fetched commit
CheckedOut(ref) == ref

\* a checkout that goes on without the ref
RefMissingNever(hadRef, onRemote) == FALSE

\* checkout.rs steps 2 and 3: the ref is neither in the repository nor listed by
\* git ls-remote <remote> <ref>
RefMissing(hadRef, onRemote) == ~hadRef /\ ~onRemote

\* a checkout that overwrites whatever is answered at the prompt
ShouldOverwriteAlways(force, input) == TRUE

\* checkout.rs step 8, should_overwrite: --force, or the prompt answered y or yes
ShouldOverwrite(force, input) == force \/ IsYes(input)

\* a checkout that takes the commit of the remote ref whatever is there locally
CheckoutRefRemote(hadRef, local, remote) == remote

\* checkout.rs steps 2 to 5: the commit of refs/trunk/<store> once the ref is
\* verified; steps 3 and 4 (ls-remote, fetch) run only in the else branch of
\* local_ref_exists
CheckoutRef(hadRef, local, remote) == IF hadRef THEN local ELSE remote

CheckoutFails ==
  {"none", "tool", "ls-remote", "fetch-remote", "rmdir", "mkdir",
   "fetch-local", "reset", "cleanup"}

CheckoutCmd(c, s, r, force, input, fail) ==
  LET hadRef == localRef[c][s] # NoCommit
      onRemote == fail # "ls-remote" /\ remoteRef[r][s] # NoCommit
      \* steps 2 to 5: the local ref, fetched from the remote when absent
      ref == CheckoutRef(hadRef, localRef[c][s], remoteRef[r][s])
      m == mirror[c][s]
      reached == fail # "tool" /\ (hadRef \/ (onRemote /\ fail # "fetch-remote"))
      prompted == reached /\ m.exists /\ ~force
      forced == reached /\ m.exists /\ force
      answer == IF prompted THEN input ELSE NoInput
      local1 == [localRef EXCEPT ![c][s] = ref]
      ignore1 == [gitignore EXCEPT ![c] = CheckoutIgnore(@)]
      root1 == [trunkRoot EXCEPT ![c] = TRUE]
  IN
  /\ fail \in CheckoutFails
  /\ UNCHANGED hooks
  /\ input \in Typed(prompted)
  /\ UNCHANGED <<tempBranch, remoteRef, parent, nextCommit >>
  /\ IF fail = "tool"
       THEN /\ Ran("checkout", c, s, r, FALSE, NoInput, "tool", 1)
            /\ UNCHANGED <<gitignore, trunkRoot, mirror, localRef>>
     ELSE IF RefMissing(hadRef, onRemote)
       THEN /\ Ran("checkout", c, s, r, FALSE, NoInput,
                   IF fail = "ls-remote" THEN "ls-remote" ELSE "no-ref", 1)
            /\ UNCHANGED <<gitignore, trunkRoot, mirror, localRef>>
     ELSE IF ~hadRef /\ fail = "fetch-remote"
       THEN /\ Ran("checkout", c, s, r, FALSE, NoInput, "fetch-remote", 1)
            /\ UNCHANGED <<gitignore, trunkRoot, mirror, localRef>>
     ELSE
       /\ localRef' = local1
       /\ gitignore' = ignore1
       /\ trunkRoot' = root1
       /\ IF m.exists /\ ~ShouldOverwrite(force, input)
            THEN /\ Ran("checkout", c, s, r, forced, answer, "none", 0)
                 /\ UNCHANGED mirror
          ELSE IF m.exists /\ fail = "rmdir"
            THEN /\ Ran("checkout", c, s, r, forced, answer, "rmdir", 1)
                 /\ UNCHANGED mirror
          ELSE IF fail = "mkdir"
            THEN /\ Ran("checkout", c, s, r, forced, answer, "mkdir", 1)
                 /\ mirror' = [mirror EXCEPT ![c][s] = NoDir]
          ELSE IF fail = "fetch-local"
            THEN /\ Ran("checkout", c, s, r, forced, answer, "fetch-local", 1)
                 /\ mirror' = [mirror EXCEPT ![c][s] = Repo(NoCommit, FALSE, NoCommit)]
          ELSE IF fail = "reset"
            THEN /\ Ran("checkout", c, s, r, forced, answer, "reset", 1)
                 /\ mirror' = [mirror EXCEPT ![c][s] = Repo(NoCommit, FALSE, ref)]
          ELSE /\ Ran("checkout", c, s, r, forced, answer,
                      IF fail = "cleanup" THEN "cleanup" ELSE "none", 0)
               /\ mirror' = [mirror EXCEPT ![c][s] =
                    Repo(CheckedOut(ref), FALSE,
                         IF fail = "cleanup" THEN ref ELSE NoCommit)]

\* ------------------------------------------------------------------ push
PushFails == {"none", "tool", "push"}

\* push.rs names the ref literally and takes the remote from its own --remote
PushedStore(s) == "main"

PushCmd(c, s, r, fail) ==
  LET p == PushedStore(s)
      ref == localRef[c][p]
      accepted == fail # "push" /\ FastForward(remoteRef[r][p], ref)
  IN
  /\ fail \in PushFails
  /\ UNCHANGED hooks
  /\ UNCHANGED <<gitignore, trunkRoot, mirror, localRef, tempBranch,
                 parent, nextCommit >>
  /\ IF fail = "tool" \/ ref = NoCommit
       THEN /\ Ran("push", c, s, r, FALSE, NoInput,
                   IF fail = "tool" THEN "tool" ELSE "no-ref", 1)
            /\ UNCHANGED remoteRef
     ELSE IF ~accepted
       THEN /\ Ran("push", c, s, r, FALSE, NoInput, "push", 1)
            /\ UNCHANGED remoteRef
     ELSE /\ Ran("push", c, s, r, FALSE, NoInput, "none", 0)
          /\ remoteRef' = [remoteRef EXCEPT ![r][p] = ref]

\* ------------------------------------------------------------------ delete
\* delete.rs step 4: drop the lines that trim to ".trunk", rewrite if that changed
\* the text
DeleteIgnore(content) ==
  IF content = NoFile THEN NoFile
  ELSE LET updated == Join(FilterLines(Lines(content)), <<NL>>)
       IN IF updated # content
            THEN IF updated # <<>> THEN updated \o <<NL>> ELSE <<>>
            ELSE content

DeleteFails == {"none", "tool", "rmdir", "update-ref", "ls-remote", "push"}

\* delete.rs receives neither the store nor the remote: the names are literals
DeletedStores(s) == {"main"}
DeletedRemote(r) == "origin"
\* step 5 removes the directory .trunk, whatever it holds
DeletedMirrors(s) == Stores

DeleteCmd(c, s, r, input, fail) ==
  LET ds == DeletedStores(s)
      dr == DeletedRemote(r)
      hadRoot == trunkRoot[c]
      hadLocal == \E t \in ds : localRef[c][t] # NoCommit
      \* step 7: ls-remote; an unreachable remote prints nothing
      hadRemote == fail # "ls-remote" /\ \E t \in ds : remoteRef[dr][t] # NoCommit
      mirror1 == [mirror EXCEPT ![c] =
                    [t \in Stores |-> IF t \in DeletedMirrors(s) THEN NoDir ELSE @[t]]]
      root1 == [trunkRoot EXCEPT ![c] =
                  IF DeletedMirrors(s) = Stores THEN FALSE
                  ELSE \E t \in Stores : mirror1[c][t].exists]
      local1 == [localRef EXCEPT ![c] =
                   [t \in Stores |-> IF t \in ds THEN NoCommit ELSE @[t]]]
      remote1 == [remoteRef EXCEPT ![dr] =
                    [t \in Stores |-> IF t \in ds THEN NoCommit ELSE @[t]]]
      RanDelete(failed, removed, code) ==
        last' = [op |-> "delete", clone |-> c, store |-> s, remote |-> r,
                 forced |-> FALSE, input |-> input, stdin |-> Stdin(input),
                 failed |-> failed, removed |-> removed, all |-> FALSE, named |-> TRUE,
                 report |-> {}, exit |-> code]
  IN
  /\ fail \in DeleteFails
  /\ UNCHANGED hooks
  /\ UNCHANGED <<tempBranch, parent, nextCommit >>
  /\ IF ~IsYes(input)
       THEN /\ RanDelete("none", {}, 0)
            /\ UNCHANGED <<gitignore, trunkRoot, mirror, localRef, remoteRef>>
     ELSE IF fail = "tool"
       THEN /\ RanDelete("tool", {}, 1)
            /\ UNCHANGED <<gitignore, trunkRoot, mirror, localRef, remoteRef>>
     ELSE
       /\ gitignore' = [gitignore EXCEPT ![c] = DeleteIgnore(@)]
       /\ IF hadRoot /\ fail = "rmdir"
            THEN /\ RanDelete("rmdir", {}, 1)
                 /\ UNCHANGED <<trunkRoot, mirror, localRef, remoteRef>>
          ELSE
            /\ mirror' = IF hadRoot THEN mirror1 ELSE mirror
            /\ trunkRoot' = IF hadRoot THEN root1 ELSE trunkRoot
            /\ IF hadLocal /\ fail = "update-ref"
                 THEN /\ RanDelete("update-ref", IF hadRoot THEN {"dir"} ELSE {}, 1)
                      /\ UNCHANGED <<localRef, remoteRef>>
               ELSE
                 /\ localRef' = IF hadLocal THEN local1 ELSE localRef
                 /\ IF hadRemote /\ fail = "push"
                      THEN /\ RanDelete("push",
                                 (IF hadRoot THEN {"dir"} ELSE {}) \cup
                                 (IF hadLocal THEN {"local"} ELSE {}), 1)
                           /\ UNCHANGED remoteRef
                      ELSE /\ RanDelete(IF fail = "ls-remote" THEN "ls-remote" ELSE "none",
                                 (IF hadRoot THEN {"dir"} ELSE {}) \cup
                                 (IF hadLocal THEN {"local"} ELSE {}) \cup
                                 (IF hadRemote THEN {"remote"} ELSE {}), 0)
                           /\ remoteRef' = IF hadRemote THEN remote1 ELSE remoteRef

\* ------------------------------------------------------------------ stegano
\* stegano.rs step 4b: strip a final "\n.trunk\n", else a final ".trunk\n"
SteganoIgnore(content) ==
  IF content = NoFile THEN NoFile
  ELSE IF EndsWith(content, <<NL>> \o DotTrunk \o <<NL>>)
    THEN SubSeq(content, 1, Len(content) - Len(DotTrunk) - 2)
  ELSE IF EndsWith(content, DotTrunk \o <<NL>>)
    THEN SubSeq(content, 1, Len(content) - Len(DotTrunk) - 1)
  ELSE content

SteganoFails == {"none", "tool", "rmdir-store", "rmdir-root"}

\* a stegano that deletes refs/trunk/<store> with the mirror
SteganoRefsDeleted(c, s) == [localRef EXCEPT ![c][s] = NoCommit]

\* stegano.rs runs git for rev-parse only (steps 1 and 2) and removes files:
\* the refs of the main repository stay as they are
SteganoRefs(c, s) == localRef

SteganoCmd(c, s, r, fail) ==
  LET m == mirror[c][s]
      handled == ~m.exists \/ fail # "rmdir-store"
      mirror1 == IF handled THEN [mirror EXCEPT ![c][s] = NoDir] ELSE mirror
      empty == \A t \in Stores : ~mirror1[c][t].exists
      rootGone == trunkRoot[c] /\ empty /\ fail # "rmdir-root"
      cleanup == handled /\ (~trunkRoot[c] \/ rootGone)
  IN
  /\ fail \in SteganoFails
  /\ UNCHANGED hooks
  /\ localRef' = SteganoRefs(c, s)
  /\ UNCHANGED <<tempBranch, remoteRef, parent, nextCommit >>
  /\ IF fail = "tool"
       THEN /\ Ran("stegano", c, s, r, FALSE, NoInput, "tool", 1)
            /\ UNCHANGED <<gitignore, trunkRoot, mirror>>
       ELSE /\ mirror' = mirror1
            /\ trunkRoot' = [trunkRoot EXCEPT ![c] = IF handled /\ rootGone THEN FALSE ELSE @]
            /\ gitignore' = [gitignore EXCEPT ![c] = IF cleanup THEN SteganoIgnore(@) ELSE @]
            /\ Ran("stegano", c, s, r, FALSE, NoInput,
                   IF m.exists /\ fail = "rmdir-store" THEN "rmdir-store"
                   ELSE IF trunkRoot[c] /\ empty /\ fail = "rmdir-root" THEN "rmdir-root"
                   ELSE "none", 0)

\* ------------------------------------------------------------------ hooks
\* a hook script that the tool did not write
UserHook == <<"user">>

\* the script hooks.rs writes to .git/hooks/<h> for the store s: post-commit runs
\* git trunk commit --force --store <s>, pre-push pushes refs/trunk/<s>
HookFor(h, s) == <<h, s>>

\* an install that takes a missing hook for consent
InstallHookIfAbsent(exists, force, input) ==
  IF exists /\ ~force THEN IsYes(input) ELSE TRUE

\* hooks.rs steps 4 and 5, install_post_commit and install_pre_push: both
\* branches print a prompt and read a line
InstallHook(exists, force, input) ==
  IF exists /\ ~force THEN IsYes(input) ELSE IsYes(input) \/ force

HooksFails == {"none", "tool", "mkdir", "create-post-commit", "create-pre-push"}

HooksCmd(c, s, r, force, input1, input2, fail) ==
  LET post == InstallHook(hooks[c]["post-commit"] # NoHook, force, input1)
      pre == InstallHook(hooks[c]["pre-push"] # NoHook, force, input2)
      hooks1 == IF post
                  THEN [hooks EXCEPT ![c]["post-commit"] = HookFor("post-commit", s)]
                  ELSE hooks
      hooks2 == IF pre
                  THEN [hooks1 EXCEPT ![c]["pre-push"] = HookFor("pre-push", s)]
                  ELSE hooks1
      RanHooks(stdin, failed, code) ==
        last' = [op |-> "hooks", clone |-> c, store |-> s, remote |-> r,
                 forced |-> force, input |-> NoInput, stdin |-> stdin,
                 failed |-> failed, removed |-> {}, all |-> FALSE, named |-> TRUE,
                 report |-> {}, exit |-> code]
  IN
  /\ fail \in HooksFails
  /\ input1 \in Inputs /\ input2 \in Inputs
  /\ UNCHANGED <<gitignore, trunkRoot, mirror, localRef, tempBranch, remoteRef,
                 parent, nextCommit>>
  /\ IF fail \in {"tool", "mkdir"}
       THEN /\ RanHooks(<<>>, fail, 1)
            /\ UNCHANGED hooks
     ELSE IF post /\ fail = "create-post-commit"
       THEN /\ RanHooks(<<input1>>, fail, 1)
            /\ UNCHANGED hooks
     ELSE IF pre /\ fail = "create-pre-push"
       THEN /\ RanHooks(<<input1, input2>>, fail, 1)
            /\ hooks' = hooks1
     ELSE /\ RanHooks(<<input1, input2>>, "none", 0)
          /\ hooks' = hooks2

\* ------------------------------------------------------------------ info
\* an info that fetches the trunk refs of the remote to look at them
InfoRefsFetched(c, r) == [localRef EXCEPT ![c] = remoteRef[r]]

\* info.rs asks with rev-parse --verify, git log and ls-remote: the refs of the
\* repository after the run
InfoRefs(c, r) == localRef

\* "discover" and "ls-remote": git ls-remote returns non-zero (the remote cannot
\* be queried); "ls-remote-spawn", "rev-parse", "status": the command cannot be
\* executed
InfoFails ==
  {"none", "tool", "discover", "status", "rev-parse", "ls-remote",
   "ls-remote-spawn"}

\* info.rs 96-193, stores_to_check: with --all the stores listed by ls-remote
\* --refs <remote> refs/trunk/*; else the named store, or for "main" the
\* directories of .trunk, the local trunk refs and "main"
InfoStores(c, s, r, all, fail) ==
  IF all
    THEN IF fail = "discover" THEN {}
         ELSE {t \in Stores : remoteRef[r][t] # NoCommit}
  ELSE IF s # "main" THEN {s}
  ELSE {t \in Stores : mirror[c][t].exists \/ localRef[c][t] # NoCommit}
         \cup {"main"}

\* info.rs 233-243, local_store_uncommitted_changes
InfoStatus(m, fail) ==
  IF ~m.exists THEN "none"
  ELSE IF fail = "status" THEN "failed"
  ELSE IF m.dirty THEN "changed" ELSE "clean"

\* info.rs 247-248, main_repo_ref_exists: map_or(false, ...) has no third value
InfoLocal(ref, fail) ==
  IF fail # "rev-parse" /\ ref # NoCommit THEN "yes" ELSE "no"

\* info.rs 256-270, remote_repo_ref_exists: None only if git cannot be executed
InfoRemote(ref, fail) ==
  IF fail = "ls-remote-spawn" THEN "failed"
  ELSE IF fail # "ls-remote" /\ ref # NoCommit THEN "yes" ELSE "no"

\* info.rs 206-300: what is printed for the store t
InfoEntry(c, t, r, fail) ==
  [store |-> t, dir |-> mirror[c][t].exists,
   status |-> InfoStatus(mirror[c][t], fail),
   local |-> InfoLocal(localRef[c][t], fail),
   remote |-> InfoRemote(remoteRef[r][t], fail)]

InfoCmd(c, s, r, named, all, fail) ==
  LET stores == IF fail = "tool" THEN {} ELSE InfoStores(c, s, r, all, fail)
      \* the failure is met only if the step it names runs
      met == \/ fail = "tool"
             \/ fail = "discover" /\ all
             \/ fail = "status" /\ \E t \in stores : mirror[c][t].exists
             \/ fail \in {"rev-parse", "ls-remote", "ls-remote-spawn"}
                  /\ stores # {}
  IN
  /\ fail \in InfoFails
  /\ localRef' = InfoRefs(c, r)
  /\ UNCHANGED <<gitignore, trunkRoot, mirror, tempBranch, remoteRef, parent,
                 nextCommit, hooks>>
  /\ last' = [op |-> "info", clone |-> c, store |-> s, remote |-> r,
              forced |-> FALSE, input |-> NoInput, stdin |-> <<>>,
              failed |-> IF met THEN fail ELSE "none", removed |-> {},
              all |-> all, named |-> named,
              report |-> {InfoEntry(c, t, r, fail) : t \in stores},
              exit |-> IF fail = "tool" THEN 1 ELSE 0]

\* ------------------------------------------------------------------ the tool
\* main.rs: the command, --store, --remote and the command's flags are parsed and
\* the handler is called.  FF is the set of steps at which an external command may
\* fail in this run; a failure named for a step the run never reaches is no failure.
InitRun(c, s, FF) ==
  \E force \in BOOLEAN, fail \in InitFails \cap FF :
    /\ InitCmd(c, s, DefaultRemote, force, fail)
    /\ fail \in {"none", last'.failed}

CommitRun(c, s, FF) ==
  \E force \in BOOLEAN, input \in Inputs, fail \in CommitFails \cap FF :
    /\ CommitCmd(c, s, DefaultRemote, force, input, fail)
    /\ fail \in {"none", last'.failed}

SteganoRun(c, s, FF) ==
  \E fail \in SteganoFails \cap FF :
    /\ SteganoCmd(c, s, DefaultRemote, fail)
    /\ fail \in {"none", last'.failed}

CheckoutRun(c, s, r, FF) ==
  \E force \in BOOLEAN, input \in Inputs, fail \in CheckoutFails \cap FF :
    /\ CheckoutCmd(c, s, r, force, input, fail)
    /\ fail \in {"none", last'.failed}

PushRun(c, s, r, FF) ==
  \E fail \in PushFails \cap FF :
    /\ PushCmd(c, s, r, fail)
    /\ fail \in {"none", last'.failed}

HooksRun(c, s, FF) ==
  \E force \in BOOLEAN, input1 \in Inputs, input2 \in Inputs,
     fail \in HooksFails \cap FF :
    /\ HooksCmd(c, s, DefaultRemote, force, input1, input2, fail)
    /\ fail \in {"none", last'.failed}

InfoRun(c, s, r, FF) ==
  \E named \in BOOLEAN, all \in BOOLEAN, fail \in InfoFails \cap FF :
    \* main.rs 33-40: without --store the store is the default_value
    /\ named \/ s = DefaultStore
    /\ InfoCmd(c, s, r, named, all, fail)
    /\ fail \in {"none", last'.failed}

DeleteRun(c, s, r, FF) ==
  \E input \in Inputs, fail \in DeleteFails \cap FF :
    /\ DeleteCmd(c, s, r, input, fail)
    /\ fail \in {"none", last'.failed}

\* one run of the tool in the clone c, for a store of SS and a remote of RR.
\* init, commit and stegano take the remote as _remote_name and never use it.
Run(c, SS, RR, FF) ==
  \E s \in SS :
    \/ InitRun(c, s, FF)
    \/ CommitRun(c, s, FF)
    \/ SteganoRun(c, s, FF)
    \/ \E r \in RR : CheckoutRun(c, s, r, FF)
    \/ \E r \in RR : PushRun(c, s, r, FF)
    \/ \E r \in RR : DeleteRun(c, s, r, FF)

AllFails ==
  InitFails \cup CommitFails \cup CheckoutFails \cup PushFails \cup DeleteFails
    \cup SteganoFails

NoFails == {"none"}

\* every store and remote, every external command succeeds
Next ==
  /\ \/ Run("local", Stores, Remotes, NoFails)
     \/ \E s \in Stores : Edit("local", s)
  /\ UNCHANGED phase
  /\ NoHistory /\ NoObjects

Spec == Init /\ [][Next]_vars

\* the default store and remote, any one external command of a run may fail
NextFail ==
  /\ \/ Run("local", {DefaultStore}, {DefaultRemote}, AllFails)
     \/ Edit("local", DefaultStore)
  /\ UNCHANGED phase
  /\ NoHistory /\ NoObjects

SpecFail == Init /\ [][NextFail]_vars

\* the default store and remote, any one external command of an init or of a
\* commit may fail: the states a commit can start from, and every way it ends
NextCommitFail ==
  /\ \/ InitRun("local", DefaultStore, InitFails)
     \/ CommitRun("local", DefaultStore, CommitFails)
     \/ SteganoRun("local", DefaultStore, NoFails)
     \/ CheckoutRun("local", DefaultStore, DefaultRemote, NoFails)
     \/ PushRun("local", DefaultStore, DefaultRemote, NoFails)
     \/ DeleteRun("local", DefaultStore, DefaultRemote, NoFails)
     \/ Edit("local", DefaultStore)
  /\ UNCHANGED phase
  /\ NoHistory /\ NoObjects

SpecCommitFail == Init /\ [][NextCommitFail]_vars

\* ------------------------------------------------------------------ ignore file
\* utils.rs ensure_trunk_in_gitignore without the newline before the entry
EnsureNoNewline(content) ==
  IF content = NoFile THEN DotTrunk \o <<NL>>
  ELSE IF ~HasTrunkLine(content) THEN content \o DotTrunk \o <<NL>>
  ELSE content

\* utils.rs ensure_trunk_in_gitignore: append ".trunk\n" unless some line trims to
\* ".trunk", after a "\n" if the text is not empty and does not end with one
ensure_trunk_in_gitignore(content) ==
  IF content = NoFile THEN DotTrunk \o <<NL>>
  ELSE IF ~HasTrunkLine(content)
    THEN IF content # <<>> /\ content[Len(content)] # NL
           THEN content \o <<NL>> \o DotTrunk \o <<NL>>
           ELSE content \o DotTrunk \o <<NL>>
  ELSE content

\* utils.rs remove_trunk_from_gitignore that joins the lines left and adds no
\* final newline
RemoveNoNewline(content) ==
  IF content = NoFile THEN NoFile
  ELSE LET kept == FilterLines(Lines(content))
       IN IF Len(kept) < Len(Lines(content)) THEN Join(kept, <<NL>>) ELSE content

\* utils.rs remove_trunk_from_gitignore that removes a file left without a line
RemoveDeletesEmpty(content) ==
  IF content = NoFile THEN NoFile
  ELSE LET kept == FilterLines(Lines(content))
       IN IF Len(kept) < Len(Lines(content))
            THEN IF kept # <<>> THEN Join(kept, <<NL>>) \o <<NL>> ELSE NoFile
            ELSE content

\* utils.rs remove_trunk_from_gitignore: if some line trims to ".trunk", rewrite
\* the file as the other lines, each followed by "\n"; never remove the file
remove_trunk_from_gitignore(content) ==
  IF content = NoFile THEN NoFile
  ELSE LET kept == FilterLines(Lines(content))
       IN IF Len(kept) < Len(Lines(content))
            THEN IF kept # <<>> THEN Join(kept, <<NL>>) \o <<NL>> ELSE <<>>
            ELSE content

\* the texts a .gitignore may hold before the tool runs: up to MaxPieces pieces
Pieces == { <<"x">>, <<NL>>, <<CR>>, <<" ">>, DotTrunk }

RECURSIVE Texts(_)
Texts(n) ==
  IF n = 0 THEN { <<>> }
  ELSE Texts(n - 1) \cup { t \o p : t \in Texts(n - 1), p \in Pieces }

IgnoreStart == {NoFile} \cup Texts(MaxPieces)

InitEditor ==
  /\ gitignore \in [Clones -> IgnoreStart]
  /\ gitignore["second"] = NoFile
  /\ NoHooks
  /\ Blank
  /\ phase = "free"

EnsureCall(c) ==
  /\ gitignore' = [gitignore EXCEPT ![c] = ensure_trunk_in_gitignore(@)]
  /\ Ran("ensure", c, DefaultStore, DefaultRemote, FALSE, NoInput, "none", 0)
  /\ UNCHANGED <<trunkRoot, mirror, localRef, tempBranch, remoteRef, parent,
                 nextCommit, phase, synced, heads, hooks, objects>>

RemoveCall(c) ==
  /\ gitignore' = [gitignore EXCEPT ![c] = remove_trunk_from_gitignore(@)]
  /\ Ran("remove", c, DefaultStore, DefaultRemote, FALSE, NoInput, "none", 0)
  /\ UNCHANGED <<trunkRoot, mirror, localRef, tempBranch, remoteRef, parent,
                 nextCommit, phase, synced, heads, hooks, objects>>

NextEditor == EnsureCall("local") \/ RemoveCall("local")

SpecEditor == InitEditor /\ [][NextEditor]_vars

\* the commands that write .gitignore and need no ref (init, stegano, delete), for
\* every store, from any .gitignore the user may have; every external command
\* succeeds
NextIgnore ==
  /\ \E s \in Stores :
       \/ InitRun("local", s, NoFails)
       \/ SteganoRun("local", s, NoFails)
       \/ DeleteRun("local", s, DefaultRemote, NoFails)
  /\ UNCHANGED phase
  /\ NoHistory /\ NoObjects

SpecIgnore == InitEditor /\ [][NextIgnore]_vars

\* ------------------------------------------------------------------ round trip
\* The scenario of the sync protocol: after any set-up in the first clone, init,
\* commit, and then either checkout in the same clone or push and checkout in a
\* second clone of the main repository.  Every external command succeeds; a step
\* is taken only if the one before it exited 0 and was not declined.
InitRoundTrip == Fresh /\ phase = "setup"

Affirmative == { <<"y", NL>>, <<" ", "Y", "E", "S", " ", NL>> }

Declined(l) == l.input # NoInput /\ l.input \notin Affirmative

Proceed == last.exit = 0 /\ ~Declined(last)

Setup ==
  /\ phase = "setup"
  /\ \E s \in Stores : InitRun("local", s, NoFails) \/ CommitRun("local", s, NoFails)
  /\ phase' = "setup"

ScenarioInit ==
  /\ phase = "setup"
  /\ \E s \in Stores : InitRun("local", s, NoFails)
  /\ phase' = "inited"

ScenarioEdit ==
  /\ phase = "inited" /\ Proceed
  /\ Edit("local", last.store)
  /\ phase' = "inited"

ScenarioCommit ==
  /\ phase = "inited" /\ Proceed
  /\ CommitRun("local", last.store, NoFails)
  /\ phase' = "committed"

ScenarioPush ==
  /\ phase = "committed" /\ Proceed
  /\ \E r \in Remotes : PushRun("local", last.store, r, NoFails)
  /\ phase' = "pushed"

ScenarioCheckoutLocal ==
  /\ phase = "committed" /\ Proceed
  /\ \E r \in Remotes : CheckoutRun("local", last.store, r, NoFails)
  /\ phase' = "done"

ScenarioCheckoutSecond ==
  /\ phase = "pushed" /\ Proceed
  /\ CheckoutRun("second", last.store, last.remote, NoFails)
  /\ phase' = "done"

NextRoundTrip ==
  /\ \/ Setup
     \/ ScenarioInit
     \/ ScenarioEdit
     \/ ScenarioCommit
     \/ ScenarioPush
     \/ ScenarioCheckoutLocal
     \/ ScenarioCheckoutSecond
  /\ NoHistory /\ NoObjects

SpecRoundTrip == InitRoundTrip /\ [][NextRoundTrip]_vars

\* ------------------------------------------------------------------ claims
\* the run recorded in l went through to its end: exit 0, no prompt declined
Completed(l) == l.exit = 0 /\ ~Declined(l)

\* ------------------------------------------------------------------ history
\* what the history variables record of a step of the tool
Track ==
  /\ heads' = [s \in Stores |->
                 heads[s] \cup ({mirror'[c][s].head : c \in Clones} \ {NoCommit})]
  /\ synced' = [c \in Clones |-> [s \in Stores |->
       IF ~mirror'[c][s].exists THEN FALSE
       ELSE IF /\ last'.clone = c /\ last'.store = s
               /\ last'.op \in {"commit", "checkout"} /\ Completed(last')
         THEN TRUE
       ELSE IF last'.op \in {"init", "checkout"} /\ mirror'[c][s] # mirror[c][s]
         THEN FALSE
       ELSE synced[c][s]]]

\* what runs in the second clone of the main repository: the default store is
\* checked out from the remote, committed and pushed back
SecondRun ==
  \/ CheckoutRun("second", DefaultStore, DefaultRemote, NoFails)
  \/ CommitRun("second", DefaultStore, NoFails)
  \/ PushRun("second", DefaultStore, DefaultRemote, NoFails)

\* tool operations alone: every command and store in the first clone, the
\* second clone beside it, the default remote; no edit inside a mirror
NextTool ==
  /\ \/ Run("local", Stores, {DefaultRemote}, NoFails)
     \/ SecondRun
  /\ UNCHANGED phase
  /\ Track /\ NoObjects

SpecTool == Init /\ [][NextTool]_vars

\* the same with the user's edits inside the mirrors of the first clone
NextToolEdit ==
  /\ \/ Run("local", Stores, {DefaultRemote}, NoFails)
     \/ \E s \in Stores : Edit("local", s)
     \/ SecondRun
  /\ UNCHANGED phase
  /\ Track /\ NoObjects

SpecToolEdit == Init /\ [][NextToolEdit]_vars

\* ------------------------------------------------------------------ the report
\* every store and the default remote; info may meet any one failure
NextInfo ==
  /\ \/ Run("local", Stores, {DefaultRemote}, NoFails)
     \/ \E s \in Stores : Edit("local", s)
     \/ \E s \in Stores : InfoRun("local", s, DefaultRemote, InfoFails)
  /\ UNCHANGED phase
  /\ NoHistory /\ NoObjects

SpecInfo == Init /\ [][NextInfo]_vars

\* ------------------------------------------------------------------ prompts
\* the hooks directory may hold the user's own hooks before the tool runs
InitHooks ==
  /\ gitignore = [c \in Clones |-> NoFile]
  /\ hooks \in [Clones -> [HookNames -> {NoHook, UserHook}]]
  /\ hooks["second"] = [h \in HookNames |-> NoHook]
  /\ Blank
  /\ phase = "free"

\* hooks alone, for every store; any one step of a run may fail
NextHooks ==
  /\ \E s \in Stores : HooksRun("local", s, HooksFails)
  /\ UNCHANGED phase
  /\ NoHistory /\ NoObjects

SpecHooks == InitHooks /\ [][NextHooks]_vars

\* the commands that take --force, on the default store; every external command
\* succeeds
NextForce ==
  /\ \/ HooksRun("local", DefaultStore, NoFails)
     \/ InitRun("local", DefaultStore, NoFails)
     \/ CommitRun("local", DefaultStore, NoFails)
     \/ CheckoutRun("local", DefaultStore, DefaultRemote, NoFails)
     \/ Edit("local", DefaultStore)
  /\ UNCHANGED phase
  /\ NoHistory /\ NoObjects

SpecForce == Init /\ [][NextForce]_vars

\* ------------------------------------------------------------------ re-entry
\* the one step of a commit after which a run leaves its work half done
RetryFails == {"none", "update-ref"}

\* the default store; the update-ref of a commit may fail, nothing else does
NextRetry ==
  /\ \/ InitRun("local", DefaultStore, NoFails)
     \/ CommitRun("local", DefaultStore, RetryFails)
     \/ SteganoRun("local", DefaultStore, NoFails)
     \/ CheckoutRun("local", DefaultStore, DefaultRemote, NoFails)
     \/ PushRun("local", DefaultStore, DefaultRemote, NoFails)
     \/ Edit("local", DefaultStore)
  /\ UNCHANGED phase
  /\ NoHistory /\ NoObjects

SpecRetry == Init /\ [][NextRetry]_vars

\* the step after which a run has nothing left to do but report
CleanupFails == {"none", "cleanup"}

\* the default store; the deletion of the temporary branch of a commit or of the
\* temporary ref of a checkout may fail, nothing else does
NextCleanup ==
  /\ \/ InitRun("local", DefaultStore, NoFails)
     \/ CommitRun("local", DefaultStore, CleanupFails)
     \/ CheckoutRun("local", DefaultStore, DefaultRemote, CleanupFails)
     \/ Edit("local", DefaultStore)
  /\ UNCHANGED phase
  /\ NoHistory /\ NoObjects

SpecCleanup == Init /\ [][NextCleanup]_vars

\* ------------------------------------------------------------------ overwrite
\* the steps of init and checkout that remove and create the mirror directory
OverwriteFails == {"none", "rmdir", "mkdir"}

\* the default store: the commands that create, fill or read a mirror; the
\* removal or the creation of the directory by init or checkout may fail
NextOverwrite ==
  /\ \/ InitRun("local", DefaultStore, OverwriteFails)
     \/ CheckoutRun("local", DefaultStore, DefaultRemote, OverwriteFails)
     \/ CommitRun("local", DefaultStore, NoFails)
     \/ PushRun("local", DefaultStore, DefaultRemote, NoFails)
     \/ HooksRun("local", DefaultStore, NoFails)
     \/ InfoRun("local", DefaultStore, DefaultRemote, NoFails)
     \/ Edit("local", DefaultStore)
  /\ UNCHANGED phase
  /\ NoHistory /\ NoObjects

SpecOverwrite == Init /\ [][NextOverwrite]_vars

\* the steps of a checkout that talk to the remote
RemoteFails == {"none", "ls-remote", "fetch-remote"}

\* the default store; the remote may fail to answer a checkout
NextCheckout ==
  /\ \/ InitRun("local", DefaultStore, NoFails)
     \/ CommitRun("local", DefaultStore, NoFails)
     \/ PushRun("local", DefaultStore, DefaultRemote, NoFails)
     \/ SteganoRun("local", DefaultStore, NoFails)
     \/ CheckoutRun("local", DefaultStore, DefaultRemote, RemoteFails)
     \/ Edit("local", DefaultStore)
     \/ SecondRun
  /\ UNCHANGED phase
  /\ NoHistory /\ NoObjects

SpecCheckout == Init /\ [][NextCheckout]_vars

\* ------------------------------------------------------------------ two runs
\* two runs of commit for the default store in the first clone, each external
\* command a step of its own; phase holds where each run stands and what it read
Runs == {"A", "B"}

Idle == [pc |-> "idle", hash |-> NoCommit, forced |-> FALSE, answer |-> NoInput,
         warned |-> "none"]

InFlight(ph) == ph.pc \in {"add", "commit", "rev-parse", "fetch", "update-ref",
                           "cleanup"}

InitTwo == Fresh /\ phase = [p \in Runs |-> Idle]

\* the run p ends: what it leaves in phase, and the run as it is recorded
Ends(p, pc, forced, answer, failed, code) ==
  /\ phase' = [phase EXCEPT ![p] = [pc |-> pc, hash |-> @.hash, forced |-> forced,
                                    answer |-> answer, warned |-> failed]]
  /\ Ran("commit", "local", DefaultStore, DefaultRemote, forced, answer, failed,
         code)

Goes(p, pc) ==
  /\ phase' = [phase EXCEPT ![p].pc = pc]
  /\ UNCHANGED last

\* commit.rs steps 1 to 4: the directory is looked for, git status --porcelain
\* runs and, on changes without --force, the prompt is answered
StartStep(p) ==
  \E force \in BOOLEAN, input \in Inputs :
    LET m == mirror["local"][DefaultStore]
        prompted == m.exists /\ m.dirty /\ ~force
        forced == m.exists /\ m.dirty /\ force
        answer == IF prompted THEN input ELSE NoInput
    IN
    /\ ~InFlight(phase[p])
    /\ input \in Typed(prompted)
    /\ UNCHANGED <<gitignore, trunkRoot, mirror, localRef, tempBranch, remoteRef,
                   parent, nextCommit, hooks>>
    /\ IF ~m.exists
         THEN Ends(p, "failed", FALSE, NoInput, "no-mirror", CommitExit("no-mirror"))
       ELSE IF m.dirty /\ ~ShouldStage(force, input)
         THEN Ends(p, "declined", forced, answer, "none", 0)
       ELSE /\ phase' = [phase EXCEPT ![p] =
                           [pc |-> IF m.dirty THEN "add" ELSE "rev-parse",
                            hash |-> NoCommit, forced |-> forced,
                            answer |-> answer, warned |-> "none"]]
            /\ UNCHANGED last

\* step 4: git add -A; the changes stay uncommitted
AddStep(p) ==
  /\ phase[p].pc = "add"
  /\ Goes(p, "commit")
  /\ UNCHANGED <<gitignore, trunkRoot, mirror, localRef, tempBranch, remoteRef,
                 parent, nextCommit, hooks>>

\* step 5: git commit -m; with nothing to commit it returns non-zero and the run
\* goes on
CommitStep(p) ==
  LET m == mirror["local"][DefaultStore]
      created == m.exists /\ m.dirty
  IN
  /\ phase[p].pc = "commit"
  /\ created => nextCommit <= MaxCommits
  /\ phase' = [phase EXCEPT ![p].pc = "rev-parse",
                            ![p].warned = IF created THEN "none" ELSE "commit"]
  /\ UNCHANGED last
  /\ IF created
       THEN /\ mirror' = [mirror EXCEPT !["local"][DefaultStore] =
                            Repo(nextCommit, FALSE, m.tmp)]
            /\ parent' = [parent EXCEPT ![nextCommit] = m.head]
            /\ nextCommit' = nextCommit + 1
       ELSE UNCHANGED <<mirror, parent, nextCommit>>
  /\ UNCHANGED <<gitignore, trunkRoot, localRef, tempBranch, remoteRef, hooks>>

\* step 6: git rev-parse main in the mirror; the hash is kept in commit_hash
RevParseStep(p) ==
  LET m == mirror["local"][DefaultStore]
  IN
  /\ phase[p].pc = "rev-parse"
  /\ UNCHANGED <<gitignore, trunkRoot, mirror, localRef, tempBranch, remoteRef,
                 parent, nextCommit, hooks>>
  /\ IF m.head = NoCommit
       THEN Ends(p, "failed", phase[p].forced, phase[p].answer, "no-commits", 1)
       ELSE /\ phase' = [phase EXCEPT ![p].pc = "fetch", ![p].hash = m.head]
            /\ UNCHANGED last

\* step 7: git fetch <mirror> main:trunk-temp-<store>, of the commit main is on
\* when the fetch runs
FetchStep(p) ==
  LET m == mirror["local"][DefaultStore]
      temp == tempBranch["local"][DefaultStore]
  IN
  /\ phase[p].pc = "fetch"
  /\ UNCHANGED <<gitignore, trunkRoot, mirror, localRef, remoteRef, parent,
                 nextCommit, hooks>>
  /\ IF m.head # NoCommit /\ TempFetched(temp, m.head)
       THEN /\ tempBranch' = [tempBranch EXCEPT !["local"][DefaultStore] = m.head]
            /\ Goes(p, "update-ref")
       ELSE /\ UNCHANGED tempBranch
            /\ Ends(p, "failed", phase[p].forced, phase[p].answer, "fetch", 1)

\* step 8: git rev-parse --verify of the ref, for the message, then git
\* update-ref refs/trunk/<store> <commit_hash>
UpdateRefStep(p) ==
  /\ phase[p].pc = "update-ref"
  /\ localRef' = [localRef EXCEPT !["local"][CommitRefStore(DefaultStore)] =
                    UpdatedRef(@, phase[p].hash)]
  /\ Goes(p, "cleanup")
  /\ UNCHANGED <<gitignore, trunkRoot, mirror, tempBranch, remoteRef, parent,
                 nextCommit, hooks>>

\* step 9: git branch -D trunk-temp-<store>; a branch that is not there is a
\* warning, and the run ends with exit code 0
CleanupStep(p) ==
  LET temp == tempBranch["local"][DefaultStore]
      warned == IF temp = NoCommit THEN "cleanup" ELSE phase[p].warned
  IN
  /\ phase[p].pc = "cleanup"
  /\ tempBranch' = [tempBranch EXCEPT !["local"][DefaultStore] = NoCommit]
  /\ Ends(p, "done", phase[p].forced, phase[p].answer, warned, CommitExit(warned))
  /\ UNCHANGED <<gitignore, trunkRoot, mirror, localRef, remoteRef, parent,
                 nextCommit, hooks>>

\* init runs while no commit is in flight; the user edits at any time
NextTwo ==
  /\ \/ /\ \A p \in Runs : ~InFlight(phase[p])
        /\ InitRun("local", DefaultStore, NoFails)
        /\ UNCHANGED phase
     \/ Edit("local", DefaultStore) /\ UNCHANGED phase
     \/ \E p \in Runs :
          \/ StartStep(p)
          \/ AddStep(p)
          \/ CommitStep(p)
          \/ RevParseStep(p)
          \/ FetchStep(p)
          \/ UpdateRefStep(p)
          \/ CleanupStep(p)
  /\ NoHistory /\ NoObjects

SpecTwo == InitTwo /\ [][NextTwo]_vars

\* ------------------------------------------------------------------ objects
RECURSIVE Ancestry(_, _)
\* the commit k with its ancestors under the parent relation par: what a fetch
\* of k brings into a repository
Ancestry(par, k) == IF k = NoCommit THEN {} ELSE {k} \cup Ancestry(par, par[k])

\* the run recorded in l went past step 7 of commit.rs: git fetch <mirror>
\* main:trunk-temp-<store> succeeded
CommitFetched(l) ==
  /\ l.op = "commit" /\ ~Declined(l)
  /\ l.failed \in {"none", "commit", "update-ref", "cleanup"}

\* the run recorded in l went past step 4 of checkout.rs: git fetch <remote>
\* <ref>:<ref> succeeded
CheckoutFetched(l) ==
  /\ l.op = "checkout"
  /\ l.failed \notin {"tool", "ls-remote", "no-ref", "fetch-remote"}

\* what a step of the tool adds to the object database of the main repository
Fetch ==
  objects' = [c \in Clones |->
    IF c # last'.clone THEN objects[c]
    ELSE IF CommitFetched(last')
      THEN objects[c] \cup Ancestry(parent', mirror'[c][last'.store].head)
    ELSE IF CheckoutFetched(last') /\ localRef[c][last'.store] = NoCommit
      THEN objects[c] \cup Ancestry(parent', remoteRef[last'.remote][last'.store])
    ELSE objects[c]]

\* the steps of a commit that bring objects and write the ref
FetchFails == {"none", "fetch", "update-ref"}

\* the default store in two clones; the fetch or the update-ref of a commit in
\* the first clone may fail
NextObjects ==
  /\ \/ InitRun("local", DefaultStore, NoFails)
     \/ CommitRun("local", DefaultStore, FetchFails)
     \/ PushRun("local", DefaultStore, DefaultRemote, NoFails)
     \/ Edit("local", DefaultStore)
     \/ SecondRun
  /\ UNCHANGED phase
  /\ NoHistory /\ Fetch

SpecObjects == Init /\ [][NextObjects]_vars

\* ------------------------------------------------------------------ claims, continued
\* C1: after a successful commit of a store, refs/trunk/<store> exists and is the
\* commit of branch main in the mirror .trunk/<store>, whether or not the ref
\* existed before.
C1_CommitSetsRef ==
  (last.op = "commit" /\ Completed(last)) =>
    /\ localRef[last.clone][last.store] # NoCommit
    /\ mirror[last.clone][last.store].exists
    /\ localRef[last.clone][last.store] = mirror[last.clone][last.store].head

C1_Witness ==
  /\ last.op = "commit" /\ last.exit = 0
  /\ last.store = "blog" /\ last.input \in Affirmative
  /\ mirror["local"]["blog"].head = 2
  /\ localRef["local"]["blog"] = 2
  /\ localRef["local"]["main"] = NoCommit

\* C2: init, then commit, then checkout into a fresh mirror directory (in the same
\* clone, or after push in a second clone that shares the remote) yields a mirror
\* whose main commit is the commit that commit recorded in refs/trunk/<store>.
C2_RoundTrip ==
  (phase = "done" /\ ~Declined(last)) =>
    /\ last.exit = 0
    /\ mirror[last.clone][last.store].exists
    /\ mirror[last.clone][last.store].head = localRef["local"][last.store]
    /\ localRef["local"][last.store] # NoCommit

\* C3: a successful push of store S to remote R makes refs/trunk/S on R the commit
\* of the local refs/trunk/S.
C3_PushSetsRemote ==
  (last.op = "push" /\ last.exit = 0) =>
    /\ localRef[last.clone][last.store] # NoCommit
    /\ remoteRef[last.remote][last.store] = localRef[last.clone][last.store]

\* the commit command is about to run on a mirror with a clean status
CleanCommitStep ==
  /\ last'.op = "commit"
  /\ mirror[last'.clone][last'.store].exists
  /\ ~mirror[last'.clone][last'.store].dirty

\* C4 as stated: commit with no changes in the mirror leaves refs/trunk/<store>
\* unchanged and exits 0.
C4_CleanCommitLeavesRef ==
  [][CleanCommitStep => (localRef' = localRef /\ last'.exit = 0)]_vars

\* C4 as amended: commit with no changes in the mirror sets refs/trunk/<store> to
\* the mirror's main commit (unchanged if it was that commit already, created or
\* moved otherwise) and exits 0, unless a required git step fails: then it exits 1
\* and the ref is unchanged.
C4_CleanCommitSyncsRef ==
  [][CleanCommitStep =>
       LET c == last'.clone
           s == last'.store
       IN \/ /\ last'.exit = 0
             /\ mirror[c][s].head # NoCommit
             /\ localRef' = [localRef EXCEPT ![c][s] = mirror[c][s].head]
             /\ mirror' = mirror
          \/ /\ last'.exit = 1
             /\ last'.failed \in {"tool", "no-commits", "fetch", "update-ref"}
             /\ localRef' = localRef]_vars

C4_Witness ==
  /\ last.op = "commit" /\ last.exit = 0 /\ last.failed = "none"
  /\ last.input = NoInput /\ ~last.forced
  /\ mirror["local"]["main"].head = 2
  /\ localRef["local"]["main"] = 2
  /\ parent[2] = NoCommit

\* C5: delete answered with anything other than y/yes exits 0 and leaves the
\* mirror directories, the local refs, the remote refs and the ignore file as they
\* were; nothing is removed by delete without an affirmative answer (there is no
\* force flag to stand in for it).
C5_DeleteDeclined ==
  [][last'.op = "delete" =>
       /\ last'.input \notin Affirmative =>
            /\ last'.exit = 0
            /\ UNCHANGED <<gitignore, trunkRoot, mirror, localRef, tempBranch,
                           remoteRef>>
       /\ ~ UNCHANGED <<gitignore, trunkRoot, mirror, localRef, remoteRef>> =>
            /\ last'.input \in Affirmative
            /\ ~last'.forced]_vars

C5_Witness ==
  /\ last.op = "delete" /\ last.exit = 0
  /\ last.input = <<"y", "e", NL>>
  /\ mirror["local"]["main"].exists
  /\ localRef["local"]["main"] # NoCommit
  /\ remoteRef["origin"]["main"] # NoCommit
  /\ HasTrunkLine(gitignore["local"])

\* C6: after a confirmed delete of store S with remote R that exits 0, the mirror
\* directory .trunk/S, the local ref refs/trunk/S and the ref refs/trunk/S on R
\* are all absent.
C6_DeleteRemovesAll ==
  (last.op = "delete" /\ last.input \in Affirmative /\ last.exit = 0) =>
    /\ ~mirror[last.clone][last.store].exists
    /\ localRef[last.clone][last.store] = NoCommit
    /\ remoteRef[last.remote][last.store] = NoCommit

\* a confirmed delete is about to run for a store that has no mirror, no local
\* ref and no ref on the remote
DeleteOfNothingStep ==
  /\ last'.op = "delete" /\ last'.input \in Affirmative
  /\ ~mirror[last'.clone][last'.store].exists
  /\ localRef[last'.clone][last'.store] = NoCommit
  /\ remoteRef[last'.remote][last'.store] = NoCommit

\* C7: a confirmed delete of a store with no mirror, no local ref and no remote
\* ref exits 0, removes nothing in any of its three steps and changes no
\* persisted state.
C7_DeleteOfNothing ==
  [][DeleteOfNothingStep =>
       /\ last'.exit = 0
       /\ last'.removed = {}
       /\ UNCHANGED <<gitignore, trunkRoot, mirror, localRef, remoteRef>>]_vars

\* C8: the content of .gitignore is the same before and after every run of
\* delete, confirmed or not.
C8_DeleteKeepsIgnore ==
  [][last'.op = "delete" => gitignore' = gitignore]_vars

\* C9: a confirmed delete of store S leaves the mirror directory of every other
\* store as it was, and removes the mirror root .trunk only if no mirror is left
\* in it.
C9_DeleteKeepsOtherMirrors ==
  [][(last'.op = "delete" /\ last'.input \in Affirmative) =>
       /\ \A t \in Stores \ {last'.store} :
            mirror'[last'.clone][t] = mirror[last'.clone][t]
       /\ (trunkRoot[last'.clone] /\ ~trunkRoot'[last'.clone]) =>
            \A t \in Stores : ~mirror'[last'.clone][t].exists]_vars

LifecycleOps == {"init", "commit", "checkout", "push", "delete", "stegano"}

\* C10: a lifecycle operation run for store S and remote R changes no local ref
\* of another store and no remote ref other than refs/trunk/S on R.
C10_RefIsolation ==
  [][last'.op \in LifecycleOps =>
       /\ \A c \in Clones : \A t \in Stores \ {last'.store} :
            localRef'[c][t] = localRef[c][t]
       /\ \A r \in Remotes : \A t \in Stores :
            (r # last'.remote \/ t # last'.store) =>
              remoteRef'[r][t] = remoteRef[r][t]]_vars

\* C11: stegano creates, moves and deletes no ref: the local refs and the remote
\* refs of every store are the same before and after every run of stegano,
\* whether the mirror directories exist or not.
C11_SteganoKeepsRefs ==
  [][last'.op = "stegano" => (localRef' = localRef /\ remoteRef' = remoteRef)]_vars

C11_Witness ==
  /\ last.op = "stegano" /\ last.store = "blog" /\ last.exit = 0
  /\ ~mirror["local"]["blog"].exists /\ ~trunkRoot["local"]
  /\ localRef["local"]["blog"] # NoCommit
  /\ remoteRef["origin"]["main"] # NoCommit

\* C16: init creates and moves no ref: the local ref and the remote ref of every
\* store are the same before and after every run of init, with and without
\* --force; a store that init created has no ref until a commit creates it.
C16_InitKeepsRefs ==
  [][/\ last'.op = "init" => (localRef' = localRef /\ remoteRef' = remoteRef)
     /\ \A c \in Clones, s \in Stores :
          (localRef[c][s] = NoCommit /\ localRef'[c][s] # NoCommit
             /\ remoteRef = [r \in Remotes |-> [t \in Stores |-> NoCommit]]) =>
            (last'.op = "commit" /\ last'.store = s)]_vars

C16_Witness ==
  /\ last.op = "init" /\ last.forced /\ last.exit = 0
  /\ localRef["local"]["main"] = 1
  /\ mirror["local"]["main"].head = 2
  /\ localRef["local"]["blog"] = NoCommit

\* an init without --force is about to run, inside a git working tree, for a
\* store whose mirror exists
InitOfExistingStep ==
  /\ last'.op = "init" /\ ~last'.forced
  /\ last'.failed # "tool"
  /\ mirror[last'.clone][last'.store].exists

C20_PushWithoutRef ==
  [][(last'.op = "push" /\ localRef[last'.clone][last'.store] = NoCommit) =>
       (last'.exit = 1 /\ remoteRef' = remoteRef)]_vars

\* C13: a second call of ensure_excluded leaves the ignore file byte-identical to
\* its content after the first call, for every initial state of the file.
C13_EnsureIdempotent ==
  [][(last.op = "ensure" /\ last'.op = "ensure") => gitignore' = gitignore]_vars

C13_Witness ==
  /\ last.op = "ensure"
  /\ gitignore["local"] = <<"x", NL>> \o DotTrunk \o <<NL>>

\* every line of the text, the last one included, ends with "\n" and none with
\* "\r\n"
PlainLines(content) ==
  /\ content = <<>> \/ content[Len(content)] = NL
  /\ \A i \in 1..(Len(content) - 1) : ~(content[i] = CR /\ content[i + 1] = NL)

\* C14 as stated: remove_excluded after ensure_excluded restores the ignore file
\* to the content it had before ensure_excluded, for every initial content.
C14_RemoveRestores ==
  [][last'.op = "ensure" =>
       remove_trunk_from_gitignore(gitignore'[last'.clone]) =
         gitignore[last'.clone]]_vars

\* C14 as amended: remove_excluded after ensure_excluded restores the content the
\* ignore file had before ensure_excluded, for every initial file that exists, has
\* no line that trims to .trunk, and has every line ended by "\n" (never "\r\n").
C14_RemoveRestoresPlain ==
  [][(/\ last'.op = "ensure"
      /\ gitignore[last'.clone] # NoFile
      /\ ~HasTrunkLine(gitignore[last'.clone])
      /\ PlainLines(gitignore[last'.clone])) =>
       /\ gitignore'[last'.clone] # gitignore[last'.clone]
       /\ remove_trunk_from_gitignore(gitignore'[last'.clone]) =
            gitignore[last'.clone]]_vars

C14_Witness ==
  /\ last.op = "ensure"
  /\ gitignore["local"] = <<"x", NL, NL>> \o DotTrunk \o <<NL>>

\* the number of lines of the ignore file that trim to ".trunk"
TrunkLines(content) ==
  IF content = NoFile THEN 0
  ELSE Cardinality({i \in 1..Len(Lines(content)) : Trim(Lines(content)[i]) = DotTrunk})

\* C12: after stegano of store S, if the mirror of another store still exists then
\* .trunk and the .trunk line of the ignore file are retained; otherwise .trunk is
\* removed and no line of the ignore file is a .trunk line, wherever it stood.
C12_SteganoLastStore ==
  [][(last'.op = "stegano" /\ mirror[last'.clone][last'.store].exists) =>
       LET c == last'.clone IN
       IF \E t \in Stores \ {last'.store} : mirror'[c][t].exists
         THEN trunkRoot'[c] /\ gitignore'[c] = gitignore[c]
         ELSE ~trunkRoot'[c] /\ TrunkLines(gitignore'[c]) = 0]_vars

\* a successful init is about to create the mirror of a store that has none
InitOfNewStep ==
  /\ last'.op = "init" /\ last'.exit = 0
  /\ ~mirror[last'.clone][last'.store].exists

\* C15: after a successful init of a store that was uninitialized, its mirror is a
\* repository with exactly one commit on main, and the ignore file has exactly one
\* .trunk line, for every prior content without one (also content that does not
\* end with a newline).
C15_InitOfNew ==
  [][InitOfNewStep =>
       LET c == last'.clone
           m == mirror'[c][last'.store]
       IN /\ m.exists /\ ~m.dirty
          /\ m.head # NoCommit /\ parent'[m.head] = NoCommit
          /\ TrunkLines(gitignore[c]) = 0 => TrunkLines(gitignore'[c]) = 1]_vars

\* C18: with tool operations alone, if the mirror of a store exists, a checkout or
\* commit of the store has completed since that mirror directory was created, and
\* refs/trunk/<store> exists, then the mirror's main commit is the ref's commit.
C18_MirrorMatchesRef ==
  \A c \in Clones, s \in Stores :
    (mirror[c][s].exists /\ synced[c][s] /\ localRef[c][s] # NoCommit) =>
      mirror[c][s].head = localRef[c][s]

C18_Witness ==
  /\ mirror["second"]["main"].exists /\ synced["second"]["main"]
  /\ mirror["second"]["main"].head = 1 /\ localRef["second"]["main"] = 1
  /\ mirror["local"]["main"].exists /\ synced["local"]["main"]
  /\ mirror["local"]["main"].head = 2 /\ localRef["local"]["main"] = 2
  /\ last.op = "push" /\ last.exit = 1

\* C19: the local ref refs/trunk/S, when present, is a commit that has been the
\* head of main of a mirror of store S, in this clone or in another one from which
\* it came through the remote ref refs/trunk/S.
C19_RefFromMirror ==
  \A c \in Clones, s \in Stores :
    localRef[c][s] # NoCommit => localRef[c][s] \in heads[s]

C19_Witness ==
  /\ last.op = "checkout" /\ last.clone = "second" /\ last.exit = 0
  /\ localRef["second"]["main"] = 1
  /\ localRef["local"]["main"] = 2
  /\ parent[2] = 1
  /\ heads["main"] = {1, 2}

\* a checkout is about to run for a store whose ref is neither in the repository
\* nor on the named remote
CheckoutOfNothingStep ==
  /\ last'.op = "checkout"
  /\ localRef[last'.clone][last'.store] = NoCommit
  /\ remoteRef[last'.remote][last'.store] = NoCommit

\* C21: a checkout of store S when refs/trunk/S is absent locally and on the named
\* remote exits 1 before changing anything: the ignore file, .trunk, every mirror
\* (an existing mirror of S included) and all refs stay as they were.
C21_CheckoutWithoutRef ==
  [][CheckoutOfNothingStep =>
       /\ last'.exit = 1
       /\ UNCHANGED <<gitignore, trunkRoot, mirror, localRef, tempBranch,
                      remoteRef>>]_vars

C21_Witness ==
  /\ last.op = "checkout" /\ last.exit = 1 /\ last.failed = "no-ref"
  /\ mirror[last.clone][last.store].exists
  /\ mirror[last.clone][last.store].dirty
  /\ localRef[last.clone][last.store] = NoCommit
  /\ remoteRef[last.remote][last.store] = NoCommit

\* C22: a checkout without --force whose overwrite prompt is answered with
\* anything but y or yes exits 0 and leaves the existing mirror, its files and its
\* history, as it was.
C22_CheckoutDeclined ==
  [][(last'.op = "checkout" /\ Declined(last')) =>
       /\ last'.exit = 0
       /\ mirror[last'.clone][last'.store].exists
       /\ UNCHANGED <<mirror, parent, nextCommit>>]_vars

C22_Witness ==
  /\ last.op = "checkout" /\ Declined(last) /\ last.exit = 0
  /\ mirror[last.clone][last.store].exists
  /\ mirror[last.clone][last.store].dirty
  /\ mirror[last.clone][last.store].head # localRef[last.clone][last.store]

\* C23: a commit of store S when .trunk/S does not exist exits 1 and neither
\* creates nor moves a trunk ref.
C23_CommitWithoutMirror ==
  [][(last'.op = "commit" /\ ~mirror[last'.clone][last'.store].exists) =>
       /\ last'.exit = 1
       /\ UNCHANGED <<localRef, mirror>>]_vars

C23_Witness ==
  /\ last.op = "commit" /\ last.exit = 1 /\ last.failed = "no-mirror"
  /\ ~mirror[last.clone][last.store].exists
  /\ localRef[last.clone][last.store] # NoCommit

\* C24: a commit without --force on a mirror with uncommitted changes whose
\* prompt is declined exits 0 without staging, without creating a commit and
\* without creating or moving a trunk ref.
C24_CommitDeclined ==
  [][(last'.op = "commit" /\ Declined(last')) =>
       /\ last'.exit = 0
       /\ mirror[last'.clone][last'.store].dirty
       /\ UNCHANGED <<mirror, localRef, tempBranch, parent, nextCommit>>]_vars

C24_Witness ==
  /\ last.op = "commit" /\ Declined(last) /\ last.exit = 0
  /\ mirror[last.clone][last.store].dirty
  /\ mirror[last.clone][last.store].head # NoCommit
  /\ localRef[last.clone][last.store] = NoCommit

\* the commands whose steps are all required, and the one step of theirs whose
\* failure is a warning: deleting the temporary ref or branch
FailFastOps == {"init", "checkout", "commit", "push", "stegano"}
NonCritical == {"cleanup"}

\* C29: in init, checkout, commit, push and stegano the failure of a step that is
\* not non-critical (a removal or creation in the file system, a git command that
\* returns non-zero) ends the run with exit code 1; exit code 0 means full
\* success or a declined prompt.
C29_FailureIsFatal ==
  [][(last'.op \in FailFastOps /\ last'.failed \notin {"none"} \cup NonCritical)
       => last'.exit = 1]_vars

\* C30: in commit the ref is written only after the objects of the mirror were
\* fetched: a trunk ref of a repository, when present, is a commit whose objects
\* are in that repository, and a commit whose fetch fails exits 1 and leaves the
\* refs as they were.
C30_RefAfterFetch ==
  /\ [](\A c \in Clones, s \in Stores :
          localRef[c][s] # NoCommit => localRef[c][s] \in objects[c])
  /\ [][(last'.op = "commit" /\ last'.failed = "fetch") =>
          last'.exit = 1 /\ UNCHANGED localRef]_vars

C30_Witness ==
  /\ last.op = "commit" /\ last.failed = "fetch" /\ last.exit = 1
  /\ localRef["local"][DefaultStore] # NoCommit
  /\ mirror["local"][DefaultStore].head # localRef["local"][DefaultStore]
  /\ localRef["local"][DefaultStore] \in objects["local"]
  /\ mirror["local"][DefaultStore].head \notin objects["local"]

\* the commands that take --force
ForceOps == {"init", "checkout", "commit", "hooks"}

\* C25: --force pre-empts every prompt it governs: a run of init, checkout,
\* commit or hooks in which --force stands in for an answer reads nothing from
\* standard input, and hooks with --force installs both hooks whatever is typed.
C25_ForceNeverReads ==
  [][(last'.op \in ForceOps /\ last'.forced) =>
       /\ last'.stdin = <<>>
       /\ (last'.op = "hooks" /\ last'.exit = 0) =>
            hooks'[last'.clone] =
              [h \in HookNames |-> HookFor(h, last'.store)]]_vars

\* every prompt of the hooks run recorded in l was answered, and none with y or
\* yes
AllRefused(l) ==
  /\ l.op = "hooks" /\ ~l.forced
  /\ Len(l.stdin) = 2
  /\ \A i \in 1..2 : l.stdin[i] \notin Affirmative

\* C26: hooks without --force in which every prompt is answered with a refusal
\* leaves the post-commit and pre-push hook files as they were: an absent hook
\* stays absent, an existing one keeps its content.
C26_HooksRefused ==
  [][AllRefused(last') => last'.exit = 0 /\ UNCHANGED hooks]_vars

C26_Witness ==
  /\ AllRefused(last) /\ last.exit = 0
  /\ hooks["local"]["post-commit"] = UserHook
  /\ hooks["local"]["pre-push"] = NoHook

\* C27: info changes nothing, for every combination of --all, store and remote:
\* the mirrors, the ignore file, the hooks and the local and remote refs are the
\* same after it as before.
C27_InfoReadOnly ==
  [][last'.op = "info" =>
       UNCHANGED <<gitignore, trunkRoot, mirror, localRef, tempBranch,
                   remoteRef, hooks, parent, nextCommit>>]_vars

C27_Witness ==
  /\ last.op = "info" /\ last.exit = 0 /\ last.report # {}
  /\ \E t \in Stores : mirror[last.clone][t].exists /\ mirror[last.clone][t].dirty
  /\ \E t \in Stores : localRef[last.clone][t] # remoteRef[last.remote][t]
  /\ \E t \in Stores : remoteRef[last.remote][t] # NoCommit

\* the stores an info run is to report, were every check to succeed
InfoExpected(l) ==
  IF l.all
    THEN {t \in Stores : remoteRef[l.remote][t] # NoCommit}
  ELSE IF l.store # "main" THEN {l.store}
  ELSE {t \in Stores :
          mirror[l.clone][t].exists \/ localRef[l.clone][t] # NoCommit}
         \cup {"main"}

\* C28: in info a check that fails to execute (the status of a mirror, the local
\* ref, the remote ref when the remote cannot be queried) is reported as failed
\* and not as absent, and the report goes on: every store is still reported.
C28_InfoReportsUnknown ==
  [][(last'.op = "info" /\ last'.failed \notin {"none", "tool", "discover"}) =>
       LET l == last' IN
       /\ {e.store : e \in l.report} = InfoExpected(l)
       /\ \A e \in l.report :
            /\ (l.failed = "status" /\ e.dir) => e.status = "failed"
            /\ l.failed = "rev-parse" => e.local = "failed"
            /\ l.failed \in {"ls-remote", "ls-remote-spawn"} =>
                 e.remote = "failed"]_vars

\* the commit that is about to run repeats, on the same store, a commit whose
\* update-ref failed
CommitRetryStep ==
  /\ last.op = "commit" /\ last.failed = "update-ref"
  /\ last'.op = "commit" /\ last'.failed # "update-ref"
  /\ last'.clone = last.clone /\ last'.store = last.store

\* C31: commit does not roll back: when update-ref fails after the fetch, the run
\* exits 1, refs/trunk/S keeps its value (or stays absent) and the temporary
\* branch stays on the fetched commit; the next commit of the unchanged mirror
\* exits 0 and sets refs/trunk/S to the mirror's main commit.
C31_CommitNoRollback ==
  [][LET c == last'.clone
         s == last'.store
     IN /\ (last'.op = "commit" /\ last'.failed = "update-ref") =>
             /\ last'.exit = 1
             /\ UNCHANGED localRef
             /\ tempBranch'[c][s] = mirror'[c][s].head
             /\ tempBranch'[c][s] # NoCommit
        /\ CommitRetryStep =>
             /\ last'.exit = 0
             /\ UNCHANGED mirror
             /\ localRef'[c][s] = mirror[c][s].head
             /\ tempBranch'[c][s] = NoCommit]_vars

C31_Witness ==
  /\ last.op = "commit" /\ last.failed = "update-ref" /\ last.exit = 1
  /\ localRef["local"][DefaultStore] = 1
  /\ mirror["local"][DefaultStore].head = 2
  /\ ~mirror["local"][DefaultStore].dirty
  /\ tempBranch["local"][DefaultStore] = 2

\* C32: a failed cleanup is a warning: when the temporary branch of a commit or
\* the temporary ref of a checkout cannot be deleted, the run still exits 0 and
\* keeps what it established (refs/trunk/S on the mirror's main commit; the
\* mirror clean on the ref's commit); when the cleanup succeeds nothing temporary
\* remains.
C32_CleanupNonCritical ==
  [][LET c == last'.clone
         s == last'.store
         m == mirror'[c][s]
     IN /\ (last'.op = "commit" /\ last'.failed = "cleanup") =>
             /\ last'.exit = 0
             /\ m.head # NoCommit /\ localRef'[c][s] = m.head
        /\ (last'.op = "checkout" /\ last'.failed = "cleanup") =>
             /\ last'.exit = 0
             /\ m.exists /\ ~m.dirty
             /\ m.head # NoCommit /\ m.head = localRef'[c][s]
        /\ (last'.op = "commit" /\ Completed(last') /\ last'.failed = "none") =>
             tempBranch'[c][s] = NoCommit
        /\ (last'.op = "checkout" /\ Completed(last') /\ last'.failed = "none") =>
             m.tmp = NoCommit]_vars

C32_Witness ==
  /\ last.op = "checkout" /\ last.failed = "cleanup" /\ last.exit = 0
  /\ mirror["local"][DefaultStore].tmp = 2
  /\ mirror["local"][DefaultStore].head = 2
  /\ localRef["local"][DefaultStore] = 2
  /\ tempBranch["local"][DefaultStore] = 2

\* the command that is about to run repeats the commit or push that has just
\* completed, on the same store and remote
RepeatStep ==
  /\ last.op \in {"commit", "push"} /\ Completed(last)
  /\ last'.op = last.op /\ last'.clone = last.clone
  /\ last'.store = last.store /\ last'.remote = last.remote

\* C33: re-entry is idempotent: a commit run again right after a commit, or a push
\* right after a push, with nothing changed in between, exits 0 and leaves the
\* mirror, the local ref and the remote ref as the first run left them, and no
\* temporary branch.
C33_ReentryIdempotent ==
  [][RepeatStep =>
       /\ last'.exit = 0
       /\ UNCHANGED <<gitignore, trunkRoot, mirror, localRef, remoteRef,
                      tempBranch, parent, nextCommit>>
       /\ tempBranch'[last'.clone][last'.store] = NoCommit]_vars

C33_Witness ==
  /\ last.op = "push" /\ last.clone = "local" /\ Completed(last)
  /\ localRef["local"]["main"] = 2 /\ parent[2] = 1
  /\ remoteRef[DefaultRemote]["main"] = 2
  /\ mirror["local"]["main"].head = 2

\* C34: an existing mirror directory is removed or replaced by init or checkout
\* only under --force or, for checkout, after the overwrite prompt was answered
\* y or yes; commit, push, hooks and info never remove one: after them the
\* directory is there and its history contains the commit it was on.
C34_SafeOverwrite ==
  [][\A c \in Clones, s \in Stores :
       (mirror[c][s].exists /\ mirror'[c][s] # mirror[c][s]) =>
         /\ last'.op \in {"init", "checkout"} =>
              \/ last'.forced
              \/ last'.op = "checkout" /\ last'.input \in Affirmative
         /\ last'.op \in {"commit", "push", "hooks", "info"} =>
              /\ mirror'[c][s].exists
              /\ mirror[c][s].head # NoCommit =>
                   mirror[c][s].head \in Ancestry(parent', mirror'[c][s].head)]_vars

C34_Witness ==
  /\ last.op = "checkout" /\ last.input \in Affirmative /\ ~last.forced
  /\ last.exit = 0
  /\ mirror["local"][DefaultStore].head = 1
  /\ localRef["local"][DefaultStore] = 1
  /\ nextCommit = 3

\* C35: checkout turns to the remote only when refs/trunk/S is absent locally:
\* with the ref present it neither queries nor fetches (no failure of the remote
\* can stop it), leaves the local and the remote ref as they were, even when the
\* remote ref is on another commit, and the new mirror's main is the local ref's
\* commit.
C35_CheckoutLocalFirst ==
  [][LET c == last'.clone
         s == last'.store
     IN (last'.op = "checkout" /\ localRef[c][s] # NoCommit) =>
          /\ last'.failed \notin {"ls-remote", "fetch-remote", "no-ref"}
          /\ UNCHANGED <<localRef, remoteRef>>
          /\ Completed(last') =>
               /\ mirror'[c][s].exists
               /\ mirror'[c][s].head = localRef[c][s]]_vars

C35_Witness ==
  /\ last.op = "checkout" /\ last.clone = "local" /\ Completed(last)
  /\ localRef["local"][DefaultStore] = 2
  /\ remoteRef[DefaultRemote][DefaultStore] = 1
  /\ mirror["local"][DefaultStore].head = 2
  /\ ~mirror["local"][DefaultStore].dirty

\* C37: the removal steps of delete are best-effort and independent: after the
\* confirmation, when the removal of the directory fails the local and the remote
\* ref are still deleted, and when the deletion of the local ref fails the remote
\* ref is still deleted.
C37_DeleteBestEffort ==
  [][LET c == last'.clone
         ds == DeletedStores(last'.store)
         dr == DeletedRemote(last'.remote)
     IN /\ (last'.op = "delete" /\ last'.failed = "rmdir") =>
             \A t \in ds : localRef'[c][t] = NoCommit /\ remoteRef'[dr][t] = NoCommit
        /\ (last'.op = "delete" /\ last'.failed = "update-ref") =>
             \A t \in ds : remoteRef'[dr][t] = NoCommit]_vars

\* the stores a report of info has an entry for
Reported(l) == {e.store : e \in l.report}

\* C38: info without --all: when a store is named the report covers exactly that
\* store, whatever its name, main included; when no store is named it covers the
\* stores found in .trunk and under the local refs/trunk/; each store is reported
\* at most once.
C38_InfoTargetSet ==
  [][(last'.op = "info" /\ ~last'.all /\ last'.exit = 0) =>
       LET c == last'.clone
       IN /\ last'.named => Reported(last') = {last'.store}
          /\ ~last'.named =>
               {t \in Stores : mirror[c][t].exists \/ localRef[c][t] # NoCommit}
                 \subseteq Reported(last')
          /\ Cardinality(last'.report) = Cardinality(Reported(last'))]_vars

\* the lines of the text that do not trim to ".trunk", in their order
OtherLines(content) == SelectSeq(Lines(content), LAMBDA l : Trim(l) # DotTrunk)

RECURSIVE Terminated(_)
\* the text made of the lines, each followed by "\n"
Terminated(lines) ==
  IF lines = <<>> THEN <<>> ELSE lines[1] \o <<NL>> \o Terminated(Tail(lines))

\* C39: remove_excluded removes exactly the lines that trim to .trunk: an absent
\* file stays absent and a file stays a file, even an empty one; a file without
\* such a line is left byte-identical; otherwise no such line is left and the file
\* is the text of the other lines in their order, each ended by "\n".
C39_RemoveExact ==
  [][last'.op = "remove" =>
       LET old == gitignore[last'.clone]
           new == gitignore'[last'.clone]
       IN /\ (old = NoFile) = (new = NoFile)
          /\ old # NoFile =>
               /\ ~HasTrunkLine(new)
               /\ IF HasTrunkLine(old)
                    THEN new = Terminated(OtherLines(old))
                    ELSE new = old]_vars

C39_Witness ==
  /\ last.op = "remove"
  /\ gitignore["local"] = <<"x", "x", "x", NL>>

\* C36: two commit runs of one store interleave step by step: whenever a run ends
\* and both have then ended with success, refs/trunk/S is the commit of main in
\* the mirror; and no run ends with a failed fetch into the shared branch
\* trunk-temp-S.
C36_ConcurrentCommits ==
  [][(phase' # phase /\ \A p \in Runs : phase'[p].pc = "done") =>
       /\ localRef'["local"][DefaultStore] = mirror'["local"][DefaultStore].head
       /\ \A p \in Runs : phase'[p].warned # "fetch"]_vars

====
